---- MODULE Spec2Model ----
(***************************************************************************)
(* Model of icon/generate_icon_variants.py: the tile cropper               *)
(* crop_to_gradient_tile_square, create_light_icon, the foreground         *)
(* classifier and the dark and tinted recolourers, as run by main.         *)
(*                                                                         *)
(* An image is a record [w, h, px]: px maps the pixel positions <<x, y>>   *)
(* the model tracks to RGB triples <<r, g, b>>.  Images drawn as inputs    *)
(* and everything cut or pasted from them track the full grid; the         *)
(* LANCZOS-resampled light icon tracks its size only (px is empty).        *)
(*                                                                         *)
(* Arithmetic.  The source computes in binary floating point.  The model   *)
(* computes the same quantities exactly, in integers:                      *)
(*   - luminance is carried in units of 1/10000, one unit below the exact  *)
(*     value for the sampled colours whose double-precision sum falls      *)
(*     just under it (RoundsBelow);                                        *)
(*   - round() is Python's round-half-to-even on a quotient n / d.         *)
(* Within the bounds used here the two agree on every value computed.      *)
(***************************************************************************)
EXTENDS Integers, Sequences, FiniteSets, TLC

(* ------------------------------ bounds -------------------------------- *)
\* largest source image drawn for the cropper
MaxW == 9
MaxH == 2
\* the small value of the cropper's downscale_max parameter that is drawn
\* beside the default, so that the downscaling branch is taken
SmallDownscaleMax == 6
\* largest source image drawn for the recolourers
MaxRecW == 2
MaxRecH == 3

(* ------------------------ program constants --------------------------- *)
TARGET_SIZE == 1024
\* 0.035, in thousandths
CROP_SAT_THRESH == 35
CROP_LUM_THRESH == 220
CROP_INSET_PERCENT == 6
CROP_DOWNSCALE_MAX == 700

(* --------------------------- arithmetic ------------------------------- *)
Max2(a, b) == IF a >= b THEN a ELSE b
Min2(a, b) == IF a <= b THEN a ELSE b
Max3(a, b, c) == Max2(a, Max2(b, c))
Min3(a, b, c) == Min2(a, Min2(b, c))

\* Python's round(n / d) for d > 0: to nearest, ties to the even integer
round(n, d) ==
    LET q == n \div d
        r == n % d
    IN  IF 2 * r < d THEN q
        ELSE IF 2 * r > d THEN q + 1
        ELSE IF q % 2 = 0 THEN q ELSE q + 1

(* ----------------------------- images --------------------------------- *)
Grid(w, h) == (0 .. w - 1) \X (0 .. h - 1)

NoImage == [w |-> 0, h |-> 0, px |-> [p \in {} |-> <<0, 0, 0>>]]

WHITE == <<255, 255, 255>>
BLACK == <<0, 0, 0>>
\* pale pink: bright (luminance 244.485) but saturated (15/255)
PINK == <<255, 240, 240>>

\* <<canvas, tile>> colours of the artwork drawn for the cropper: a blank
\* sheet, a dark tile and a pale saturated tile on a white canvas, and a
\* white tile on a black canvas
CropColours == { <<WHITE, WHITE>>, <<WHITE, BLACK>>, <<WHITE, PINK>>,
                 <<BLACK, WHITE>> }

\* a canvas of colour bg carrying a rectangular tile of colour tc
TileImage(w, h, bg, tc, x0, x1, y0, y1) ==
    [w |-> w, h |-> h,
     px |-> [p \in Grid(w, h) |->
                IF x0 <= p[1] /\ p[1] <= x1 /\ y0 <= p[2] /\ p[2] <= y1
                THEN tc ELSE bg]]

\* the <<first, last>> pairs of the spans of 0 .. n - 1
Spans(n) == {s \in (0 .. n - 1) \X (0 .. n - 1) : s[1] <= s[2]}

\* img is some canvas-and-tile image of at most maxW x maxH pixels
IsTileImage(img, maxW, maxH, colours) ==
    \E w \in 1 .. maxW, h \in 1 .. maxH, bg \in colours, tc \in colours :
        \E xs \in Spans(w), ys \in Spans(h) :
            img = TileImage(w, h, bg, tc, xs[1], xs[2], ys[1], ys[2])

(* ------------------------ per-pixel predicates ------------------------ *)
\* sampled colours whose double-precision luminance sum falls one unit in
\* the last place below the exact value (203.99999999999997 for 204 and
\* 204.99999999999997 for 205)
RoundsBelow == { <<204, 204, 204>>, <<119, 249, 204>> }

\* 0.299 r + 0.587 g + 0.114 b, in units of 1/10000
_luminance(r, g, b) ==
    10 * (299 * r + 587 * g + 114 * b)
      - (IF <<r, g, b>> \in RoundsBelow THEN 1 ELSE 0)

_is_orange_accent(r, g, b) == r > 170 /\ g > 80 /\ b < 140 /\ (r - b) > 80

\* the test of the scan (lines 97-102): sat > sat_thresh or lum < lum_thresh
OfInterest(c, sat_thresh, lum_thresh) ==
    LET lum   == _luminance(c[1], c[2], c[3])
        max_c == Max3(c[1], c[2], c[3])
        min_c == Min3(c[1], c[2], c[3])
    IN  \/ max_c > 0 /\ (max_c - min_c) * 1000 > sat_thresh * 255
        \/ lum < lum_thresh * 10000

is_foreground_pixel(r, g, b) ==
    LET lum == _luminance(r, g, b)
    IN  IF _is_orange_accent(r, g, b) THEN TRUE ELSE lum < 205 * 10000

(* ------------------------------ state --------------------------------- *)
VARIABLES
    pc,             \* the statement main has reached
    original,       \* the source artwork (argument img of the cropper)
    downscale_max,  \* the cropper's downscale_max parameter
    rgb,            \* img.convert("RGB")
    scale,          \* the downscale factor, as <<numerator, denominator>>
    small,          \* the downscaled image that is scanned
    x, y,           \* the scan's next pixel
    min_x, min_y, max_x, max_y,
    left, top, right, bottom,
    sq_left, sq_top, sq_right, sq_bottom,
    cropped,        \* the cropper's working and returned image
    light, dark_icon, tinted_icon

vars == <<pc, original, downscale_max, rgb, scale, small, x, y,
          min_x, min_y, max_x, max_y, left, top, right, bottom,
          sq_left, sq_top, sq_right, sq_bottom, cropped,
          light, dark_icon, tinted_icon>>

scanVars == <<x, y, min_x, min_y, max_x, max_y>>
boxVars  == <<left, top, right, bottom>>
sqVars   == <<sq_left, sq_top, sq_right, sq_bottom>>
srcVars  == <<original, downscale_max, rgb, scale, small>>
outVars  == <<light, dark_icon, tinted_icon>>

(* ------------------- crop_to_gradient_tile_square --------------------- *)
\* Image.resize(size, BILINEAR) of line 88.  A request for the image's own
\* size returns a copy.  Otherwise the image is resampled; a resampling
\* filter has weights that sum to one, so an image of one colour comes out
\* in that colour, and images of more than one colour are never resampled
\* here (LoadOriginal draws one-colour images above the downscale cap).
resize_BILINEAR(img, sw, sh) ==
    IF sw = img.w /\ sh = img.h THEN img
    ELSE [w |-> sw, h |-> sh,
          px |-> [p \in Grid(sw, sh) |-> img.px[<<0, 0>>]]]

\* main, line 257, and the call of the cropper: the artwork is some
\* canvas-and-tile image, and downscale_max is the default or the small cap.
\* The small cap is drawn only for the images it scales (for the others the
\* two caps give the same run).  Images longer than downscale_max are of one
\* colour (see resize_BILINEAR).
LoadOriginal ==
    /\ pc = "load"
    /\ \E dm \in {SmallDownscaleMax, CROP_DOWNSCALE_MAX} :
       \E w \in 1 .. MaxW, h \in 1 .. MaxH, c \in CropColours :
       \E xs \in Spans(w), ys \in Spans(h) :
          /\ dm = SmallDownscaleMax => Max2(w, h) > dm
          /\ Max2(w, h) > dm =>
                c[1] = c[2] \/ (xs = <<0, w - 1>> /\ ys = <<0, h - 1>>)
          /\ original' = TileImage(w, h, c[1], c[2], xs[1], xs[2], ys[1], ys[2])
          /\ downscale_max' = dm
    /\ pc' = "start"
    /\ UNCHANGED <<rgb, scale, small, scanVars, boxVars, sqVars, cropped, outVars>>

\* lines 82-92: convert, downscale, and start the scan with an empty box
Downscale ==
    /\ pc = "start"
    /\ LET w  == original.w
           h  == original.h
           sc == IF Max2(w, h) > downscale_max
                 THEN <<downscale_max, Max2(w, h)>> ELSE <<1, 1>>
           sw == Max2(1, round(w * sc[1], sc[2]))
           sh == Max2(1, round(h * sc[1], sc[2]))
       IN  /\ rgb' = original
           /\ scale' = sc
           /\ small' = resize_BILINEAR(original, sw, sh)
           /\ min_x' = sw /\ min_y' = sh
           /\ max_x' = 0 /\ max_y' = 0
    /\ x' = 0 /\ y' = 0
    /\ pc' = "scan"
    /\ UNCHANGED <<original, downscale_max, boxVars, sqVars, cropped, outVars>>

\* TrackBox with the four tests chained pairwise by elif
TrackBoxElif(box, px, py) ==
    << IF px < box[1] THEN px ELSE box[1],
       IF py < box[2] THEN py ELSE box[2],
       IF px < box[1] THEN box[3] ELSE IF px > box[3] THEN px ELSE box[3],
       IF py < box[2] THEN box[4] ELSE IF py > box[4] THEN py ELSE box[4] >>

\* lines 103-110: grow the box <<min_x, min_y, max_x, max_y>> to hold (px, py)
TrackBox(box, px, py) ==
    << IF px < box[1] THEN px ELSE box[1],
       IF py < box[2] THEN py ELSE box[2],
       IF px > box[3] THEN px ELSE box[3],
       IF py > box[4] THEN py ELSE box[4] >>

\* lines 94-110: one iteration of the row-by-row scan
ScanPixel ==
    /\ pc = "scan"
    /\ y < small.h
    /\ LET box == IF OfInterest(small.px[<<x, y>>], CROP_SAT_THRESH, CROP_LUM_THRESH)
                  THEN TrackBox(<<min_x, min_y, max_x, max_y>>, x, y)
                  ELSE <<min_x, min_y, max_x, max_y>>
       IN  /\ min_x' = box[1] /\ min_y' = box[2]
           /\ max_x' = box[3] /\ max_y' = box[4]
    /\ IF x + 1 < small.w
       THEN x' = x + 1 /\ y' = y
       ELSE x' = 0 /\ y' = y + 1
    /\ UNCHANGED <<pc, srcVars, boxVars, sqVars, cropped, outVars>>

\* line 112: the test that sends the cropper to its no-op return
BoxIsDegenerate == max_x <= min_x \/ max_y <= min_y

\* CheckBox returning the downscaled image instead of the source
CheckBoxReturnsSmall ==
    /\ pc = "scan"
    /\ y = small.h
    /\ IF BoxIsDegenerate
       THEN cropped' = small /\ pc' = "return_113"
       ELSE cropped' = cropped /\ pc' = "map_back"
    /\ UNCHANGED <<srcVars, scanVars, boxVars, sqVars, outVars>>

\* lines 112-113: after the scan, return the image unchanged or go on
CheckBox ==
    /\ pc = "scan"
    /\ y = small.h
    /\ IF BoxIsDegenerate
       THEN cropped' = rgb /\ pc' = "return_113"
       ELSE cropped' = cropped /\ pc' = "map_back"
    /\ UNCHANGED <<srcVars, scanVars, boxVars, sqVars, outVars>>

\* lines 116-120: the box in source coordinates, right and bottom exclusive;
\* inv = 1.0 / scale
MapBack ==
    /\ pc = "map_back"
    /\ left'   = round(min_x * scale[2], scale[1])
    /\ top'    = round(min_y * scale[2], scale[1])
    /\ right'  = round((max_x + 1) * scale[2], scale[1])
    /\ bottom' = round((max_y + 1) * scale[2], scale[1])
    /\ pc' = "inset"
    /\ UNCHANGED <<srcVars, scanVars, sqVars, cropped, outVars>>

\* lines 123-124: inset_px for a box of the given sides
InsetPx(bw, bh) == round(Max2(bw, bh) * CROP_INSET_PERCENT, 100)

\* lines 123-128
Inset ==
    /\ pc = "inset"
    /\ LET inset_px == InsetPx(right - left, bottom - top)
       IN  /\ left' = left + inset_px
           /\ top' = top + inset_px
           /\ right' = right - inset_px
           /\ bottom' = bottom - inset_px
    /\ pc' = "square"
    /\ UNCHANGED <<srcVars, scanVars, sqVars, cropped, outVars>>

\* Clamp without the lower clamps of lines 140-141
ClampUpperOnly(sq, w, h) ==
    << sq[1], sq[2], Min2(w, sq[3]), Min2(h, sq[4]) >>

\* lines 140-143: the square clamped to the source bounds
Clamp(sq, w, h) ==
    << Max2(0, sq[1]), Max2(0, sq[2]), Min2(w, sq[3]), Min2(h, sq[4]) >>

\* Image.crop(box), right and bottom exclusive; the part of a box that lies
\* outside the image comes out black
crop(img, box) ==
    [w |-> box[3] - box[1], h |-> box[4] - box[2],
     px |-> [p \in Grid(box[3] - box[1], box[4] - box[2]) |->
                LET q == <<p[1] + box[1], p[2] + box[2]>>
                IN  IF q \in DOMAIN img.px THEN img.px[q] ELSE BLACK]]

\* lines 131-145: centre square, clamp, crop.  cx - side2 / 2.0 is
\* (left + right - side2) / 2.  crop raises on a box whose right is below
\* its left or whose bottom is above its top.
SquareCrop ==
    /\ pc = "square"
    /\ LET side2 == Max2(right - left, bottom - top)
           l0 == round(left + right - side2, 2)
           t0 == round(top + bottom - side2, 2)
           sq == Clamp(<<l0, t0, l0 + side2, t0 + side2>>, rgb.w, rgb.h)
       IN  /\ sq_left' = sq[1] /\ sq_top' = sq[2]
           /\ sq_right' = sq[3] /\ sq_bottom' = sq[4]
           /\ IF sq[3] < sq[1] \/ sq[4] < sq[2]
              THEN cropped' = cropped /\ pc' = "error"
              ELSE cropped' = crop(rgb, sq) /\ pc' = "pad"
    /\ UNCHANGED <<srcVars, scanVars, boxVars, outVars>>

\* PadToSquare with a canvas that keeps the image's own height
PadToSquareWide(img) ==
    IF img.w = img.h THEN img
    ELSE LET new_side == Max2(img.w, img.h)
             ox == (new_side - img.w) \div 2
         IN  [w |-> new_side, h |-> img.h,
              px |-> [p \in Grid(new_side, img.h) |->
                        IF ox <= p[1] /\ p[1] < ox + img.w
                        THEN img.px[<<p[1] - ox, p[2]>>]
                        ELSE WHITE]]

\* lines 148-153: centre img on a white square of its longer side
PadToSquare(img) ==
    IF img.w = img.h THEN img
    ELSE LET new_side == Max2(img.w, img.h)
             ox == (new_side - img.w) \div 2
             oy == (new_side - img.h) \div 2
         IN  [w |-> new_side, h |-> new_side,
              px |-> [p \in Grid(new_side, new_side) |->
                        IF /\ ox <= p[1] /\ p[1] < ox + img.w
                           /\ oy <= p[2] /\ p[2] < oy + img.h
                        THEN img.px[<<p[1] - ox, p[2] - oy>>]
                        ELSE WHITE]]

\* lines 148-155
PadSquare ==
    /\ pc = "pad"
    /\ cropped' = PadToSquare(cropped)
    /\ pc' = "return_155"
    /\ UNCHANGED <<srcVars, scanVars, boxVars, sqVars, outVars>>

(* -------------------------- create_light_icon ------------------------- *)
\* create_light_icon fitting the image into the target square with its
\* aspect ratio kept, as Image.thumbnail would
create_light_icon_thumbnail(img) ==
    [w |-> IF img.w >= img.h THEN TARGET_SIZE
           ELSE Max2(1, (TARGET_SIZE * img.w) \div img.h),
     h |-> IF img.h >= img.w THEN TARGET_SIZE
           ELSE Max2(1, (TARGET_SIZE * img.h) \div img.w),
     px |-> NoImage.px]

\* lines 158-160: the cropper's result resized to TARGET_SIZE x TARGET_SIZE
\* (LANCZOS); the resampled pixel values are not tracked
create_light_icon(img) ==
    [w |-> TARGET_SIZE, h |-> TARGET_SIZE, px |-> NoImage.px]

\* main, line 261, once the cropper has returned
CreateLightIcon ==
    /\ pc \in {"return_113", "return_155"}
    /\ light' = create_light_icon(cropped)
    /\ pc' = "dark"
    /\ UNCHANGED <<srcVars, scanVars, boxVars, sqVars, cropped,
                   dark_icon, tinted_icon>>

(* --------------------------- create_dark_icon ------------------------- *)
\* lines 35-53: rows run from (49,49,49) at the top towards (20,20,20);
\* int(49 + (20 - 49) * (y / height)) is the floor of (49 height - 29 y) / height
create_dark_gradient(size, tracked) ==
    [w |-> size[1], h |-> size[2],
     px |-> [p \in tracked |->
                LET v == (49 * size[2] - 29 * p[2]) \div size[2]
                IN  <<v, v, v>>]]

\* DarkPixel without the skip of background pixels (line 198)
DarkPixelNoSkip(c, bg) ==
    LET r == c[1]
        g == c[2]
        b == c[3]
        lum == _luminance(r, g, b)
    IN  IF _is_orange_accent(r, g, b)
        THEN <<Min2(255, (105 * r) \div 100), Min2(255, (105 * g) \div 100), b>>
        ELSE IF lum < 120 * 10000 THEN <<240, 240, 240>>
        ELSE LET v == Max2(70, Min2(140, (55 * lum) \div 1000000))
             IN  <<v, v, v>>

\* DarkPixel with the luminance test ahead of the accent test
DarkPixelLumFirst(c, bg) ==
    LET r == c[1]
        g == c[2]
        b == c[3]
        lum == _luminance(r, g, b)
    IN  IF ~ is_foreground_pixel(r, g, b) THEN bg
        ELSE IF lum < 120 * 10000 THEN <<240, 240, 240>>
        ELSE IF _is_orange_accent(r, g, b)
             THEN <<Min2(255, (105 * r) \div 100), Min2(255, (105 * g) \div 100), b>>
        ELSE LET v == Max2(70, Min2(140, (55 * lum) \div 1000000))
             IN  <<v, v, v>>

\* lines 197-213: the pixel written over the background bg for source pixel c
DarkPixel(c, bg) ==
    LET r == c[1]
        g == c[2]
        b == c[3]
        lum == _luminance(r, g, b)
    IN  IF ~ is_foreground_pixel(r, g, b) THEN bg
        ELSE IF _is_orange_accent(r, g, b)
             THEN <<Min2(255, (105 * r) \div 100), Min2(255, (105 * g) \div 100), b>>
        ELSE IF lum < 120 * 10000 THEN <<240, 240, 240>>
        ELSE LET v == Max2(70, Min2(140, (55 * lum) \div 1000000))
             IN  <<v, v, v>>

\* lines 177-215
create_dark_icon(source_img) ==
    LET size == <<source_img.w, source_img.h>>
        dark_bg == create_dark_gradient(size, DOMAIN source_img.px)
    IN  [w |-> size[1], h |-> size[2],
         px |-> [p \in DOMAIN source_img.px |->
                    DarkPixel(source_img.px[p], dark_bg.px[p])]]

\* main, line 266
CreateDarkIcon ==
    /\ pc = "dark"
    /\ dark_icon' = create_dark_icon(light)
    /\ pc' = "tinted"
    /\ UNCHANGED <<srcVars, scanVars, boxVars, sqVars, cropped,
                   light, tinted_icon>>

(* -------------------------- create_tinted_icon ------------------------ *)
\* TintedPixel without the lower clamp of line 249
TintedPixelNoFloor(c) ==
    LET r == c[1]
        g == c[2]
        b == c[3]
        lum == _luminance(r, g, b)
    IN  IF ~ is_foreground_pixel(r, g, b) THEN <<0, 0, 0>>
        ELSE IF _is_orange_accent(r, g, b) THEN <<255, 255, 255>>
        ELSE IF lum < 120 * 10000 THEN <<255, 255, 255>>
        ELSE LET v == Min2(220, lum \div 10000)
             IN  <<v, v, v>>

\* lines 236-250: the pixel written over the black background
TintedPixel(c) ==
    LET r == c[1]
        g == c[2]
        b == c[3]
        lum == _luminance(r, g, b)
    IN  IF ~ is_foreground_pixel(r, g, b) THEN <<0, 0, 0>>
        ELSE IF _is_orange_accent(r, g, b) THEN <<255, 255, 255>>
        ELSE IF lum < 120 * 10000 THEN <<255, 255, 255>>
        ELSE LET v == Max2(140, Min2(220, lum \div 10000))
             IN  <<v, v, v>>

\* lines 218-252
create_tinted_icon(source_img) ==
    [w |-> source_img.w, h |-> source_img.h,
     px |-> [p \in DOMAIN source_img.px |-> TintedPixel(source_img.px[p])]]

\* main, line 271
CreateTintedIcon ==
    /\ pc = "tinted"
    /\ tinted_icon' = create_tinted_icon(light)
    /\ pc' = "done"
    /\ UNCHANGED <<srcVars, scanVars, boxVars, sqVars, cropped,
                   light, dark_icon>>

(* --------------------------- specifications --------------------------- *)
\* colours drawn for the recolourers: background, outline, fill and accent
\* colours, with the ones on either side of each threshold
RecolorColours ==
    { WHITE, BLACK, PINK,
      <<205, 205, 205>>, <<204, 204, 204>>, <<119, 249, 204>>,
      <<120, 120, 120>>, <<119, 119, 119>>, <<130, 130, 130>>,
      <<200, 120, 30>>, <<250, 250, 100>>, <<171, 81, 90>>, <<170, 81, 50>>,
      <<255, 220, 200>> }

\* main before line 257: nothing is loaded yet
Init ==
    /\ pc = "load"
    /\ downscale_max = CROP_DOWNSCALE_MAX
    /\ original = NoImage
    /\ rgb = NoImage /\ small = NoImage /\ cropped = NoImage
    /\ scale = <<1, 1>>
    /\ x = 0 /\ y = 0
    /\ min_x = 0 /\ min_y = 0 /\ max_x = 0 /\ max_y = 0
    /\ left = 0 /\ top = 0 /\ right = 0 /\ bottom = 0
    /\ sq_left = 0 /\ sq_top = 0 /\ sq_right = 0 /\ sq_bottom = 0
    /\ light = NoImage /\ dark_icon = NoImage /\ tinted_icon = NoImage

Next ==
    \/ LoadOriginal
    \/ Downscale
    \/ ScanPixel
    \/ CheckBox
    \/ MapBack
    \/ Inset
    \/ SquareCrop
    \/ PadSquare
    \/ CreateLightIcon
    \/ CreateDarkIcon
    \/ CreateTintedIcon

Spec == Init /\ [][Next]_vars

\* the recolourers applied to a source image whose pixels are tracked
InitRecolor ==
    /\ pc = "dark"
    /\ IsTileImage(light, MaxRecW, MaxRecH, RecolorColours)
    /\ downscale_max = CROP_DOWNSCALE_MAX
    /\ original = NoImage
    /\ rgb = NoImage /\ small = NoImage /\ cropped = NoImage
    /\ scale = <<1, 1>>
    /\ x = 0 /\ y = 0
    /\ min_x = 0 /\ min_y = 0 /\ max_x = 0 /\ max_y = 0
    /\ left = 0 /\ top = 0 /\ right = 0 /\ bottom = 0
    /\ sq_left = 0 /\ sq_top = 0 /\ sq_right = 0 /\ sq_bottom = 0
    /\ dark_icon = NoImage /\ tinted_icon = NoImage

NextRecolor ==
    \/ CreateDarkIcon
    \/ CreateTintedIcon

SpecRecolor == InitRecolor /\ [][NextRecolor]_vars

(* ------------------------------ claims -------------------------------- *)
\* "of interest" as the claims state it: saturation (max - min) / 255 above
\* 0.035, or luminance 0.299 R + 0.587 G + 0.114 B below 220
ClaimOfInterest(c) ==
    \/ (Max3(c[1], c[2], c[3]) - Min3(c[1], c[2], c[3])) * 1000 > 35 * 255
    \/ 299 * c[1] + 587 * c[2] + 114 * c[3] < 220 * 1000

\* the accent predicate as the claims state it
ClaimAccent(c) == c[1] > 170 /\ c[2] > 80 /\ c[3] < 140 /\ c[1] - c[3] > 80

\* the pixels of the downscaled image the scan has already visited
Visited == {p \in DOMAIN small.px : p[2] < y \/ (p[2] = y /\ p[1] < x)}

VisitedOfInterest == {p \in Visited : ClaimOfInterest(small.px[p])}

\* the cropper's scan has run to its end and line 112 has been decided
Decided == pc \notin {"load", "start", "scan"}

NoneOfInterest == \A p \in DOMAIN small.px : ~ ClaimOfInterest(small.px[p])

\* C1 as stated: the image the cropper returns has equal width and height,
\* on the return of line 155 and on the path the claim names, the no-op
\* return taken when no pixel of the scan is of interest.
C1_SquareOnEveryReturn ==
    /\ pc = "return_155" => cropped.w = cropped.h
    /\ (pc = "return_113" /\ NoneOfInterest) => cropped.w = cropped.h

\* C1, amended: the image returned at line 155 has equal width and height;
\* the image returned by the no-op return of line 113 has the width and
\* height of the source, whatever they are.
C1_SquareUnlessNoOp ==
    /\ pc = "return_155" => cropped.w = cropped.h /\ cropped.w >= 1
    /\ pc = "return_113" => cropped.w = original.w /\ cropped.h = original.h

\* C1 witness: the cropper returns at line 155 after clamping left a
\* rectangle that had to be padded.
C1_Witness ==
    /\ pc = "return_155"
    /\ sq_right - sq_left # sq_bottom - sq_top

\* C2: if no pixel of the downscaled scan is of interest, the cropper takes
\* its no-op return, without error, and the image it returns has the width,
\* height and pixels of its input.
C2_DegenerateFallback ==
    (Decided /\ NoneOfInterest) =>
        /\ pc \in {"return_113", "dark", "tinted", "done"}
        /\ cropped.w = original.w
        /\ cropped.h = original.h
        /\ cropped.px = original.px

\* C2 witness: a downscaled source with no pixel of interest has been
\* returned by the no-op return.
C2_Witness ==
    /\ pc = "return_113"
    /\ NoneOfInterest
    /\ small.w < original.w

\* C3: the light icon is 1024 x 1024 whatever the source size and the
\* cropper's return path; the dark and the tinted icon have the size of the
\* light icon they are made from, so all three outputs are 1024 x 1024.
C3_OutputSizing ==
    /\ pc \in {"dark", "tinted", "done"} => light.w = 1024 /\ light.h = 1024
    /\ pc \in {"tinted", "done"} =>
          dark_icon.w = light.w /\ dark_icon.h = light.h
    /\ pc = "done" =>
          /\ tinted_icon.w = light.w /\ tinted_icon.h = light.h
          /\ dark_icon.w = 1024 /\ dark_icon.h = 1024
          /\ tinted_icon.w = 1024 /\ tinted_icon.h = 1024

\* C3 witness: main has produced all three icons from a source that is not
\* square and that the cropper returned unchanged.
C3_Witness ==
    /\ pc = "done"
    /\ cropped.w # cropped.h
    /\ cropped.px = original.px

\* C4: wherever the source pixel is classified background, the dark pixel is
\* the gray of its row, floor(49 - 29 y / height), which lies between 20 and
\* 49 and depends on y and the height only, and the tinted pixel is (0,0,0).
C4_BackgroundIsolation ==
    \A p \in DOMAIN light.px :
        LET c == light.px[p]
        IN  ~ is_foreground_pixel(c[1], c[2], c[3]) =>
              /\ pc \in {"tinted", "done"} =>
                    LET v == dark_icon.px[p][1]
                    IN  /\ dark_icon.px[p] = <<v, v, v>>
                        /\ v * light.h <= 49 * light.h - 29 * p[2]
                        /\ 49 * light.h - 29 * p[2] < (v + 1) * light.h
                        /\ 20 <= v /\ v <= 49
              /\ pc = "done" => tinted_icon.px[p] = <<0, 0, 0>>

\* C4 witness: both recolourers have run on an image with a background pixel
\* below the top row and a foreground pixel.
C4_Witness ==
    /\ pc = "done"
    /\ \E p \in DOMAIN light.px :
          /\ p[2] > 0
          /\ ~ is_foreground_pixel(light.px[p][1], light.px[p][2], light.px[p][3])
    /\ \E p \in DOMAIN light.px :
          is_foreground_pixel(light.px[p][1], light.px[p][2], light.px[p][3])

\* C5: a foreground source pixel (r, g, b) becomes, in the dark icon,
\* (min(255, floor(1.05 r)), min(255, floor(1.05 g)), b) if it is an accent
\* pixel, otherwise (240,240,240) if its luminance is below 120, otherwise
\* (v, v, v) with v = floor(0.55 luminance) clamped into [70, 140]; the accent
\* rule comes first, and (200,120,30) becomes (210,126,30).
C5_DarkMapping ==
    pc \in {"tinted", "done"} =>
        \A p \in DOMAIN light.px :
            LET c == light.px[p]
                lum == _luminance(c[1], c[2], c[3])
                f == (55 * lum) \div 1000000
                v == IF f < 70 THEN 70 ELSE IF f > 140 THEN 140 ELSE f
            IN  /\ (ClaimAccent(c) \/ lum < 205 * 10000) =>
                      dark_icon.px[p] =
                          IF ClaimAccent(c)
                          THEN << Min2(255, (c[1] * 105) \div 100),
                                  Min2(255, (c[2] * 105) \div 100), c[3] >>
                          ELSE IF lum < 120 * 10000 THEN <<240, 240, 240>>
                          ELSE <<v, v, v>>
                /\ c = <<200, 120, 30>> => dark_icon.px[p] = <<210, 126, 30>>

\* C5 witness: the dark icon has been made from an image holding an accent
\* pixel whose luminance is below 120 and a mid-tone pixel.
C5_Witness ==
    /\ pc = "done"
    /\ \E p \in DOMAIN light.px : light.px[p] = <<171, 81, 90>>
    /\ \E p \in DOMAIN light.px : light.px[p] = <<130, 130, 130>>

\* C6: a foreground source pixel becomes, in the tinted icon, (255,255,255)
\* if it is an accent pixel or its luminance is below 120, otherwise (v, v, v)
\* with v = floor(luminance) clamped into [140, 220]; every tinted pixel is
\* gray, and (200,120,30) becomes (255,255,255).
C6_TintedMapping ==
    pc = "done" =>
        \A p \in DOMAIN light.px :
            LET c == light.px[p]
                lum == _luminance(c[1], c[2], c[3])
                f == lum \div 10000
                v == IF f < 140 THEN 140 ELSE IF f > 220 THEN 220 ELSE f
                t == tinted_icon.px[p]
            IN  /\ (ClaimAccent(c) \/ lum < 205 * 10000) =>
                      t = IF ClaimAccent(c) \/ lum < 120 * 10000
                          THEN <<255, 255, 255>> ELSE <<v, v, v>>
                /\ t[1] = t[2] /\ t[2] = t[3]
                /\ c = <<200, 120, 30>> => t = <<255, 255, 255>>

\* C6 witness: the tinted icon has been made from an image holding the
\* accent pixel (200,120,30) and a mid-tone pixel below the clamp's floor.
C6_Witness ==
    /\ pc = "done"
    /\ \E p \in DOMAIN light.px : light.px[p] = <<200, 120, 30>>
    /\ \E p \in DOMAIN light.px : light.px[p] = <<130, 130, 130>>

\* C7: at every step of the row-by-row scan, and when it has finished, every
\* visited pixel of interest lies inside the tracked box, and the box is the
\* smallest such box once a pixel of interest has been visited.
C7_CropContainment ==
    pc \notin {"load", "start"} =>
        LET hits == VisitedOfInterest
        IN  /\ \A p \in hits :
                  /\ min_x <= p[1] /\ p[1] <= max_x
                  /\ min_y <= p[2] /\ p[2] <= max_y
            /\ hits # {} =>
                  /\ \E p \in hits : p[1] = min_x
                  /\ \E p \in hits : p[1] = max_x
                  /\ \E p \in hits : p[2] = min_y
                  /\ \E p \in hits : p[2] = max_y

\* C7 witness: the scan has finished on an image whose pixels of interest
\* leave a margin on the left, the right and the top.
C7_Witness ==
    /\ pc = "scan"
    /\ y = small.h
    /\ 0 < min_x /\ min_x < max_x /\ max_x < small.w - 1
    /\ 0 < min_y /\ min_y = max_y

\* C8: whenever the no-op return is not taken, the rectangle passed to crop
\* is non-empty and inside the source, and the cropper does not fail.
C8_CropRectangle ==
    /\ pc # "error"
    /\ pc \in {"pad", "return_155"} =>
          /\ 0 <= sq_left /\ sq_left < sq_right /\ sq_right <= rgb.w
          /\ 0 <= sq_top /\ sq_top < sq_bottom /\ sq_bottom <= rgb.h

\* C8 witness: the crop has been made with a square that the clamping cut
\* at the top and at the bottom.
C8_Witness ==
    /\ pc = "pad"
    /\ sq_top = 0
    /\ sq_bottom = rgb.h
    /\ sq_right - sq_left > rgb.h

\* C9 as stated: whenever some pixel of the downscaled scan is of interest,
\* pixels in a single column or row included, the cropper does not take its
\* no-op return but goes on with a box that has left < right and top < bottom.
C9_NoOpOnlyWhenNothingFound ==
    (Decided /\ ~ NoneOfInterest) =>
        /\ pc # "return_113"
        /\ pc = "inset" => left < right /\ top < bottom

\* C10 as stated: whenever the no-op return is not taken, the box has
\* left < right and top < bottom after the mapping back to source
\* coordinates and after the inset.
C10_BoxThroughInset ==
    pc \in {"inset", "square", "pad", "return_155"} =>
        left < right /\ top < bottom

====
